---- MODULE Spec2Model ----
(***************************************************************************)
(* Model of ai-service/app.py: the Knee Arthritis Prediction API.          *)
(*                                                                         *)
(* One process.  At import time it calls load_model() once and keeps the   *)
(* result in the global `model`; it then serves GET / (home) and           *)
(* POST /predict (predict_knee).  predict_knee is a coroutine with one     *)
(* suspension point, `await file.read()`, so several requests can be in    *)
(* flight at once.                                                         *)
(*                                                                         *)
(* Floats are modelled in fixed point: a probability p is the integer      *)
(* p * Scale, and exp is a truncated fixed-point exponential.  The network *)
(* is opaque: its weights are a table from image content to five finite    *)
(* integer logits.                                                         *)
(***************************************************************************)
EXTENDS Integers, Sequences, FiniteSets, TLC

\* ------------------------------------------------------------------ bounds
\* Fixed-point unit: the integer that stands for probability 1.0.
Scale == 1000
\* Logits of the exhaustive inference specification range over -MaxLogit..MaxLogit.
MaxLogit == 2
\* The failure counter saturates here.
MaxFailures == 1

\* ----------------------------------------------------------- configuration
CLASS_NAMES == <<"0_Healthy", "1_Doubtful", "2_Minimal", "3_Moderate", "4_Severe">>

\* len(CLASS_NAMES): the width of the replaced final layer.
NumClasses == Len(CLASS_NAMES)

Classes == 0 .. (NumClasses - 1)

\* transforms.Resize((224, 224))
ResizeSide == 224

\* The three per-channel means / standard deviations of transforms.Normalize.
NormChannels == 3

\* Python's None.
None == [none |-> TRUE]

\* A global name that is not bound yet.
Unbound == [unbound |-> TRUE]

\* ----------------------------------------------------------------- inputs
\* Concurrent request slots (coroutines of predict_knee that may be alive at once).
Reqs == {"r1", "r2"}

\* Abstract picture contents: what the network's answer depends on.
Px == {"a", "b"}

Modes == {"RGB", "L"}

\* Resolutions (width, height) of uploaded pictures.
Sizes == {<<ResizeSide, ResizeSide>>, <<1, 3>>}

\* The bytes of an upload: a well-formed picture file, a picture file whose
\* pixel data is cut short, bytes that are no picture, or nothing at all.
GoodBytes ==
    {[fmt |-> "png", mode |-> m, w |-> s[1], h |-> s[2], px |-> p, complete |-> TRUE] :
        m \in Modes, s \in Sizes, p \in Px}

TruncatedBytes ==
    {[fmt |-> "png", mode |-> "RGB", w |-> ResizeSide, h |-> ResizeSide, px |-> "a",
      complete |-> FALSE]}

GarbageBytes ==
    {[fmt |-> "none", mode |-> "RGB", w |-> 0, h |-> 0, px |-> "a", complete |-> FALSE]}

EmptyBytes ==
    {[fmt |-> "empty", mode |-> "RGB", w |-> 0, h |-> 0, px |-> "a", complete |-> FALSE]}

\* An UploadFile: its bytes, and whether reading it works at all.
Uploads ==
    {[readable |-> TRUE, bytes |-> b] :
        b \in GoodBytes \cup TruncatedBytes \cup GarbageBytes \cup EmptyBytes}
    \cup {[readable |-> FALSE, bytes |-> b] : b \in EmptyBytes}

ValidUpload(u) == u.readable /\ u.bytes \in GoodBytes

\* Five finite logits.
LogitCube == [Classes -> (0 - MaxLogit) .. MaxLogit]

\* Logit vectors with at most one raised entry (the all-equal vector included).
PeakedLogits ==
    {[i \in Classes |-> IF i = k THEN h ELSE 0] : k \in Classes, h \in {0, 1}}

\* Trained weights: whatever they are, they fix the logits of every picture.
ServingWeights == [Px -> PeakedLogits]

\* State of resnet34_knee_final.pth on disk when the process starts.
FileStates == {"absent", "corrupt", "present"}

VARIABLES
    fileState,     \* state of the weight file on disk
    fileWeights,   \* the weights the file holds (meaningful when present)
    proc,          \* "starting", "serving" or "crashed"
    model,         \* the global `model`: None or a loaded network
    loads,         \* number of load_model() calls so far
    pc,            \* per request slot: "idle", "reading" (suspended in await), "done"
    req,           \* per slot: the UploadFile of the request
    resp,          \* per slot: what predict_knee returned
    startedAfter,  \* per slot: failures already counted when the request arrived
    failures,      \* per-request failures so far (saturating)
    overlapped,    \* per slot (history): another request ran while this one was suspended
    homeResp       \* the last answer of GET /

vars == <<fileState, fileWeights, proc, model, loads, pc, req, resp, startedAfter,
          failures, overlapped, homeResp>>

\* The process-wide state of app.py: model, CLASS_NAMES, transform.
procWide == <<model, loads, proc>>

NoResp == [none |-> TRUE]

NoUpload == [readable |-> FALSE, bytes |-> CHOOSE b \in EmptyBytes : TRUE]

\* ------------------------------------------------------- results of a step
\* A step of the handler either yields a value or raises an exception object.
Ok(v) == [ok |-> TRUE, val |-> v]

Raise(cls, msg) == [ok |-> FALSE, exc |-> [cls |-> cls, msg |-> msg]]

\* Classes derived from Exception (what `except Exception` catches).  The
\* others derive from BaseException only.
ExceptionClasses ==
    {"ValueError", "UnidentifiedImageError", "OSError", "RuntimeError", "IndexError",
     "FileNotFoundError", "TypeError"}

\* ------------------------------------------------------------- load_model
\* torch.load("resnet34_knee_final.pth") followed by load_state_dict.
TorchLoad(fs, w) ==
    IF fs = "absent" THEN Raise("FileNotFoundError", "No such file or directory")
    ELSE IF fs = "corrupt" THEN Raise("RuntimeError", "Error(s) in loading state_dict")
    ELSE Ok(w)

\* Faulty variant: the loader catches nothing.
LoadHandlerNone(cls) == FALSE

\* `except FileNotFoundError`: the failures of the load that the loader turns
\* into "no model".

LoadHandler(cls) == cls = "FileNotFoundError"

\* load_model(): the network in eval mode, None when the handler catches the
\* failure, and the exception itself when it does not.
load_model(fs, w) ==
    LET ld == TorchLoad(fs, w) IN
    IF ld.ok THEN Ok([weights |-> ld.val, training |-> FALSE])
    ELSE IF LoadHandler(ld.exc.cls) THEN Ok(None)
    ELSE ld

\* ------------------------------------------------------ the request steps
\* await file.read()
FileRead(u) ==
    IF u.readable THEN Ok(u.bytes)
    ELSE Raise("ValueError", "I/O operation on closed file.")

\* Image.open(io.BytesIO(image_data)): identifies the format, reads the header.
ImageOpen(b) ==
    IF b.fmt = "png"
    THEN Ok([mode |-> b.mode, w |-> b.w, h |-> b.h, px |-> b.px, complete |-> b.complete])
    ELSE Raise("UnidentifiedImageError", "cannot identify image file")

\* Faulty variant: the picture is used in the mode it was stored in.
ConvertRGBSkip(img) == Ok(img)

\* .convert('RGB'): loads the pixel data, then converts the mode.

ConvertRGB(img) ==
    IF ~img.complete THEN Raise("OSError", "image file is truncated")
    ELSE Ok([img EXCEPT !.mode = "RGB"])

\* transforms.Resize((224, 224))
Resize(img) == [img EXCEPT !.w = ResizeSide, !.h = ResizeSide]

\* transforms.ToTensor(): channels x height x width.
ToTensor(img) ==
    [shape |-> <<IF img.mode = "RGB" THEN 3 ELSE 1, img.h, img.w>>, px |-> img.px]

\* transforms.Normalize(mean, std) with three means: in-place, so the tensor
\* must have three channels.
Normalize(t) ==
    IF t.shape[1] = NormChannels THEN Ok(t)
    ELSE Raise("RuntimeError", "output with shape doesn't match the broadcast shape")

\* transform(image).unsqueeze(0)
Transform(img) ==
    LET n == Normalize(ToTensor(Resize(img))) IN
    IF n.ok THEN Ok([n.val EXCEPT !.shape = <<1>> \o n.val.shape]) ELSE n

\* model(tensor): calling None is a TypeError; the first convolution takes
\* three input channels.
Forward(m, t) ==
    IF m = None THEN Raise("TypeError", "'NoneType' object is not callable")
    ELSE IF Len(t.shape) = 4 /\ t.shape[2] = NormChannels THEN Ok(m.weights[t.px])
    ELSE Raise("RuntimeError", "expected input to have 3 channels")

\* Fixed-point e^(-d) for d >= 0, truncated (e^-1 ~ 0.368).
RECURSIVE ExpNeg(_)
ExpNeg(d) == IF d = 0 THEN Scale ELSE (ExpNeg(d - 1) * 368) \div 1000

MaxOf(f) == CHOOSE x \in {f[i] : i \in Classes} : \A i \in Classes : f[i] <= x

RECURSIVE SumTo(_, _)
SumTo(f, i) == IF i < 0 THEN 0 ELSE f[i] + SumTo(f, i - 1)

\* torch.nn.functional.softmax(outputs, dim=1): exp(x - max) / sum.
Softmax(outputs) ==
    LET top == MaxOf(outputs)
        e == [i \in Classes |-> ExpNeg(top - outputs[i])]
        total == SumTo(e, NumClasses - 1)
    IN [i \in Classes |-> (e[i] * Scale) \div total]

\* Faulty variant: the confidence is read at index 0, not at the predicted index.
TorchMaxFirstValue(probs) ==
    LET top == MaxOf(probs)
        idx == CHOOSE i \in Classes :
                   probs[i] = top /\ \A j \in Classes : j < i => probs[j] < top
    IN [confidence |-> probs[0], predicted |-> idx]

\* torch.max(probs, 1): the largest value and the index of its first occurrence.

TorchMax(probs) ==
    LET top == MaxOf(probs)
        idx == CHOOSE i \in Classes :
                   probs[i] = top /\ \A j \in Classes : j < i => probs[j] < top
    IN [confidence |-> top, predicted |-> idx]

\* CLASS_NAMES[grade_index]
ClassName(idx) ==
    IF idx \in Classes THEN Ok(CLASS_NAMES[idx + 1])
    ELSE Raise("IndexError", "list index out of range")

\* --------------------------------------------------------------- responses
NotLoaded == [error |-> "Model not loaded properly."]

Failure(msg) == [success |-> FALSE, error |-> msg]

\* Faulty variant: the prediction is returned without its envelope.
SuccessBare(pred) == pred

\* return {"success": True, "prediction": {...}}

Success(pred) == [success |-> TRUE, prediction |-> pred]

\* An exception that leaves predict_knee: the framework answers 500.
ServerFault(cls) == [fault |-> cls]

HomeMessage ==
    [message |-> "Knee Arthritis AI API is Running. Use /predict to analyze images."]

\* Faulty variant: only the decoder's own error is caught.
CatchesNarrow(cls) == cls = "UnidentifiedImageError"

\* `except Exception as e`

Catches(cls) == cls \in ExceptionClasses

Except(exc) == IF Catches(exc.cls) THEN Failure(exc.msg) ELSE ServerFault(exc.cls)

\* Steps 3 of the try block, from the forward pass to the returned dict.
Predict(m, tensor) ==
    LET fw == Forward(m, tensor) IN
    IF ~fw.ok THEN Except(fw.exc) ELSE
    LET probs == Softmax(fw.val)
        mx == TorchMax(probs)
        grade_index == mx.predicted
        name == ClassName(grade_index)
    IN IF ~name.ok THEN Except(name.exc) ELSE
       Success([grade_index |-> grade_index,
                label |-> name.val,
                confidence_score |-> mx.confidence])

\* The try block of predict_knee from the moment file.read() has answered.
AfterRead(m, rd) ==
    IF ~rd.ok THEN Except(rd.exc) ELSE
    LET op == ImageOpen(rd.val) IN
    IF ~op.ok THEN Except(op.exc) ELSE
    LET cv == ConvertRGB(op.val) IN
    IF ~cv.ok THEN Except(cv.exc) ELSE
    LET tf == Transform(cv.val) IN
    IF ~tf.ok THEN Except(tf.exc) ELSE
    Predict(m, tf.val)

\* predict_knee run alone, start to finish, on model m and upload u.
predict_knee(m, u) == IF m = None THEN NotLoaded ELSE AfterRead(m, FileRead(u))

IsFailure(r) == DOMAIN r = {"success", "error"} /\ r.success = FALSE

IsSuccess(r) == DOMAIN r = {"success", "prediction"} /\ r.success = TRUE

\* Faulty variant: the model check is left out.
ModelMissingNever(m) == FALSE

\* `if model is None`, the first statement of predict_knee.
ModelMissing(m) == m = None

\* Faulty variant: GET / reports the model state.
homeByModel == IF model = None THEN NotLoaded ELSE HomeMessage

\* home(): the body of GET /.
home == HomeMessage

\* Faulty variant: image_data is taken from whichever upload is being read.
AwaitedShared(r) == FileRead(req[CHOOSE q \in Reqs : pc[q] = "reading"])

\* What `await file.read()` hands back to the coroutine of slot r.
Awaited(r) == FileRead(req[r])

\* History: the requests suspended in the await when r arrives are overlapped
\* by r; if r suspends too, it starts out overlapped by them.
Overlap(r) ==
    [q \in Reqs |->
        IF q = r THEN ~ModelMissing(model) /\ \E o \in Reqs \ {r} : pc[o] = "reading"
        ELSE overlapped[q] \/ pc[q] = "reading"]

Bump(n) == IF n < MaxFailures THEN n + 1 ELSE n

\* ------------------------------------------------------------------ actions
Init ==
    /\ fileState \in FileStates
    /\ fileWeights \in ServingWeights
    /\ fileState # "present" => fileWeights = CHOOSE w \in ServingWeights : TRUE
    /\ proc = "starting"
    /\ model = Unbound
    /\ loads = 0
    /\ pc = [r \in Reqs |-> "idle"]
    /\ req = [r \in Reqs |-> NoUpload]
    /\ resp = [r \in Reqs |-> NoResp]
    /\ startedAfter = [r \in Reqs |-> 0]
    /\ failures = 0
    /\ overlapped = [r \in Reqs |-> FALSE]
    /\ homeResp = NoResp

\* Module import: `model = load_model()`.  An exception here ends the process
\* before the server listens.
Startup ==
    /\ proc = "starting"
    /\ LET ld == load_model(fileState, fileWeights) IN
       /\ loads' = loads + 1
       /\ IF ld.ok
          THEN model' = ld.val /\ proc' = "serving"
          ELSE model' = model /\ proc' = "crashed"
    /\ UNCHANGED <<fileState, fileWeights, pc, req, resp, startedAfter, failures, overlapped,
                   homeResp>>

\* GET /
Home ==
    /\ proc = "serving"
    /\ homeResp' = home
    /\ UNCHANGED <<fileState, fileWeights, proc, model, loads, pc, req, resp,
                   startedAfter, failures, overlapped>>

\* Faulty variant: a missing model is loaded again when a request arrives.
PredictEnterReload(r, u) ==
    /\ proc = "serving"
    /\ pc[r] = "idle"
    /\ req' = [req EXCEPT ![r] = u]
    /\ startedAfter' = [startedAfter EXCEPT ![r] = failures]
    /\ overlapped' = Overlap(r)
    /\ model' = IF model = None THEN [weights |-> fileWeights, training |-> FALSE] ELSE model
    /\ pc' = [pc EXCEPT ![r] = "reading"]
    /\ resp' = resp
    /\ UNCHANGED <<fileState, fileWeights, proc, loads, failures, homeResp>>

\* POST /predict, from the call of predict_knee to its first suspension: the
\* model check, then `await file.read()`.
PredictEnter(r, u) ==
    /\ proc = "serving"
    /\ pc[r] = "idle"
    /\ req' = [req EXCEPT ![r] = u]
    /\ startedAfter' = [startedAfter EXCEPT ![r] = failures]
    /\ overlapped' = Overlap(r)
    /\ IF ModelMissing(model)
       THEN /\ resp' = [resp EXCEPT ![r] = NotLoaded]
            /\ pc' = [pc EXCEPT ![r] = "done"]
       ELSE /\ resp' = resp
            /\ pc' = [pc EXCEPT ![r] = "reading"]
    /\ UNCHANGED <<fileState, fileWeights, proc, model, loads, failures, homeResp>>

\* Faulty variant: a failed request drops the model.
PredictResumeDropsModel(r) ==
    /\ pc[r] = "reading"
    /\ LET out == AfterRead(model, Awaited(r)) IN
       /\ resp' = [resp EXCEPT ![r] = out]
       /\ failures' = IF IsSuccess(out) THEN failures ELSE Bump(failures)
       /\ model' = IF IsSuccess(out) THEN model ELSE None
    /\ pc' = [pc EXCEPT ![r] = "done"]
    /\ UNCHANGED <<fileState, fileWeights, proc, loads, req, startedAfter, overlapped,
                   homeResp>>

\* The coroutine resumes with the bytes read and runs to its return.
PredictResume(r) ==
    /\ pc[r] = "reading"
    /\ LET out == AfterRead(model, Awaited(r)) IN
       /\ resp' = [resp EXCEPT ![r] = out]
       /\ failures' = IF IsSuccess(out) THEN failures ELSE Bump(failures)
    /\ pc' = [pc EXCEPT ![r] = "done"]
    /\ UNCHANGED <<fileState, fileWeights, proc, model, loads, req, startedAfter,
                   overlapped, homeResp>>

\* The response has been sent; the slot is free again.
Finish(r) ==
    /\ pc[r] = "done"
    /\ pc' = [pc EXCEPT ![r] = "idle"]
    /\ req' = [req EXCEPT ![r] = NoUpload]
    /\ resp' = [resp EXCEPT ![r] = NoResp]
    /\ startedAfter' = [startedAfter EXCEPT ![r] = 0]
    /\ overlapped' = [overlapped EXCEPT ![r] = FALSE]
    /\ UNCHANGED <<fileState, fileWeights, proc, model, loads, failures, homeResp>>

Next ==
    \/ Startup
    \/ Home
    \/ \E r \in Reqs, u \in Uploads : PredictEnter(r, u)
    \/ \E r \in Reqs : PredictResume(r)
    \/ \E r \in Reqs : Finish(r)

Spec == Init /\ [][Next]_vars

\* ------------------------------------------- exhaustive inference specification
\* One request at a time, a well-formed RGB upload, and weights that give
\* every picture the same logits, drawn from the whole cube.
InferUploads == {u \in Uploads : ValidUpload(u) /\ u.bytes.mode = "RGB" /\ u.bytes.px = "a"}

InitInfer ==
    /\ fileState = "present"
    /\ \E v \in LogitCube : fileWeights = [p \in Px |-> v]
    /\ proc = "starting"
    /\ model = Unbound
    /\ loads = 0
    /\ pc = [r \in Reqs |-> "idle"]
    /\ req = [r \in Reqs |-> NoUpload]
    /\ resp = [r \in Reqs |-> NoResp]
    /\ startedAfter = [r \in Reqs |-> 0]
    /\ failures = 0
    /\ overlapped = [r \in Reqs |-> FALSE]
    /\ homeResp = NoResp

NextInfer ==
    \/ Startup
    \/ \E u \in InferUploads : PredictEnter("r1", u)
    \/ PredictResume("r1")

SpecInfer == InitInfer /\ [][NextInfer]_vars


\* ------------------------------------------------------------------ claims
Loaded(m) == m # None /\ m # Unbound

Done(r) == pc[r] = "done"

PredictionKeys == {"grade_index", "label", "confidence_score"}

\* The model as load_model() produced it at startup.
StartupModel == [weights |-> fileWeights, training |-> FALSE]

\* C1: with the weight file absent at startup (model is None), every
\* /predict returns exactly the unavailability error, no request ever reaches
\* the read of its upload, and no per-request failure payload is produced.
C1_UnavailableWhenModelNone ==
    model = None =>
        /\ failures = 0
        /\ \A r \in Reqs :
            /\ pc[r] # "reading"
            /\ Done(r) => resp[r] = NotLoaded /\ ~IsFailure(resp[r])

C1_Witness ==
    /\ fileState = "absent"
    /\ model = None
    /\ Done("r1") /\ ValidUpload(req["r1"]) /\ resp["r1"] = NotLoaded
    /\ Done("r2") /\ req["r2"].bytes \in GarbageBytes /\ resp["r2"] = NotLoaded

\* C2: with the model loaded, a request whose upload is a well-formed picture
\* of any resolution and mode answers with a prediction whose grade_index is
\* in 0..4, whose label is CLASS_NAMES[grade_index] and whose confidence is a
\* probability (between 0 and Scale in fixed point).
C2_ValidImagePrediction ==
    \A r \in Reqs :
        (Loaded(model) /\ Done(r) /\ ValidUpload(req[r])) =>
            /\ IsSuccess(resp[r])
            /\ resp[r].prediction.grade_index \in Classes
            /\ resp[r].prediction.label = CLASS_NAMES[resp[r].prediction.grade_index + 1]
            /\ resp[r].prediction.confidence_score >= 0
            /\ resp[r].prediction.confidence_score <= Scale

C2_Witness ==
    /\ Done("r1") /\ IsSuccess(resp["r1"])
    /\ req["r1"].bytes.mode = "L" /\ req["r1"].bytes.w # ResizeSide
    /\ resp["r1"].prediction.grade_index = 3
    /\ Done("r2") /\ IsSuccess(resp["r2"])
    /\ req["r2"].bytes.mode = "RGB" /\ req["r2"].bytes.w = ResizeSide

\* C3: with the model loaded, a failure at any stage of a request (read,
\* decode, conversion, transform, forward pass, label lookup) comes back as
\* {"success": false, "error": msg}; no exception leaves predict_knee and the
\* process keeps serving.
C3_FailuresCaught ==
    Loaded(model) =>
        /\ proc = "serving"
        /\ \A r \in Reqs :
            Done(r) =>
                /\ "fault" \notin DOMAIN resp[r]
                /\ IsSuccess(resp[r]) \/ IsFailure(resp[r])
                /\ ~ValidUpload(req[r]) => IsFailure(resp[r])

C3_Witness ==
    /\ Loaded(model)
    /\ Done("r1") /\ ~req["r1"].readable /\ IsFailure(resp["r1"])
    /\ Done("r2") /\ req["r2"].bytes \in TruncatedBytes /\ IsFailure(resp["r2"])

\* C4: once requests have failed, the process still serves, the model is
\* the one loaded at startup, and a request with a well-formed picture that
\* arrives after the failures still answers with a prediction.
C4_AvailableAfterFailure ==
    failures >= 1 =>
        /\ proc = "serving"
        /\ model = StartupModel
        /\ loads = 1
        /\ \A r \in Reqs :
            (Done(r) /\ startedAfter[r] >= 1 /\ ValidUpload(req[r])) => IsSuccess(resp[r])

C4_Witness ==
    /\ failures >= 1
    /\ homeResp = HomeMessage
    /\ \E r \in Reqs :
        Done(r) /\ startedAfter[r] >= 1 /\ ValidUpload(req[r]) /\ IsSuccess(resp[r])

\* C5 as stated: whenever the weight file fails to load, for whatever
\* reason, load_model returns None and the process serves.
C5_AnyLoadFailureGivesNone ==
    (loads = 1 /\ fileState # "present") => (model = None /\ proc = "serving")

\* C5 as amended: when the weight file is absent (FileNotFoundError),
\* load_model returns None, the process serves and /predict reports the
\* unavailability error; a load that fails for another reason raises out of
\* load_model and the process does not start.
C5_AbsentFileGivesNone ==
    /\ (loads = 1 /\ fileState = "absent") =>
           /\ model = None
           /\ proc = "serving"
           /\ \A r \in Reqs : Done(r) => resp[r] = NotLoaded
    /\ (loads = 1 /\ fileState = "corrupt") =>
           /\ proc = "crashed"
           /\ model = Unbound
           /\ \A r \in Reqs : pc[r] = "idle"

C5_Witness ==
    /\ fileState = "absent"
    /\ loads = 1
    /\ \E r \in Reqs : Done(r) /\ resp[r] = NotLoaded

\* C6: GET / answers with the static status message whatever the model
\* state and whatever requests came before, and changes nothing else.
C6_HomeStatic ==
    [][ /\ homeResp' \in {homeResp, HomeMessage}
        /\ homeResp' # homeResp =>
              UNCHANGED <<fileState, fileWeights, proc, model, loads, pc, req, resp,
                          startedAfter, failures, overlapped>> ]_vars

C6_Witness ==
    /\ model = None
    /\ homeResp = HomeMessage
    /\ \E r \in Reqs : Done(r)

\* C7 as stated: a successful /predict answers with the bare object
\* {grade_index, label, confidence_score}, and every answer is that, the
\* failure payload or the unavailability error.
C7_BareResultShape ==
    \A r \in Reqs :
        Done(r) =>
            \/ DOMAIN resp[r] = PredictionKeys
            \/ IsFailure(resp[r])
            \/ resp[r] = NotLoaded

\* C7 as amended: a successful /predict answers {"success": true,
\* "prediction": {grade_index, label, confidence_score}}, and every answer
\* is that, the failure payload or the unavailability error; which one is
\* fixed by the model state and the upload.
C7_EnvelopeShape ==
    \A r \in Reqs :
        Done(r) =>
            /\ \/ IsSuccess(resp[r]) /\ DOMAIN resp[r].prediction = PredictionKeys
               \/ IsFailure(resp[r])
               \/ resp[r] = NotLoaded
            /\ IsSuccess(resp[r]) <=> (Loaded(model) /\ ValidUpload(req[r]))
            /\ resp[r] = NotLoaded <=> model = None

C7_Witness ==
    /\ Done("r1") /\ IsSuccess(resp["r1"])
    /\ Done("r2") /\ IsFailure(resp["r2"])

\* C8: load_model runs once, at startup; after it no request reassigns the
\* global model, in either direction, or changes the process state.
C8_ModelReadOnly ==
    [][ /\ loads' <= 1
        /\ proc # "starting" => (model' = model /\ loads' = loads /\ proc' = proc)
        /\ proc = "starting" => (loads = 0 /\ loads' = 1) ]_vars

C8_Witness ==
    /\ loads = 1
    /\ model = None
    /\ homeResp = HomeMessage
    /\ \E r \in Reqs : Done(r)

\* C9: whatever the interleaving at the await, a request's answer is the one
\* predict_knee gives on its own upload and the startup model when run alone.
C9_RequestsIndependent ==
    \A r \in Reqs :
        /\ Done(r) =>
              resp[r] = predict_knee(IF fileState = "absent" THEN None ELSE StartupModel,
                                     req[r])
        /\ pc[r] = "idle" => (req[r] = NoUpload /\ resp[r] = NoResp)

C9_Witness ==
    /\ Done("r1") /\ overlapped["r1"] /\ IsSuccess(resp["r1"])
    /\ Done("r2") /\ overlapped["r2"] /\ IsFailure(resp["r2"])
    /\ failures = MaxFailures

\* C10: in a successful prediction grade_index is an index of the largest of
\* the five softmax probabilities (and of the largest logit), label is the
\* label of that index, confidence_score is the probability at that index,
\* and the probabilities are a distribution: each within [0,1], summing to 1
\* up to the truncation of the fixed-point division.
C10_ArgmaxOfSoftmax ==
    (Done("r1") /\ IsSuccess(resp["r1"])) =>
        LET logits == fileWeights[req["r1"].bytes.px]
            probs == Softmax(logits)
            p == resp["r1"].prediction
        IN /\ p.grade_index \in Classes
           /\ \A j \in Classes : probs[j] <= probs[p.grade_index]
           /\ \A j \in Classes : logits[j] <= logits[p.grade_index]
           /\ p.label = CLASS_NAMES[p.grade_index + 1]
           /\ p.confidence_score = probs[p.grade_index]
           /\ \A j \in Classes : probs[j] >= 0 /\ probs[j] <= Scale
           /\ SumTo(probs, NumClasses - 1) <= Scale
           /\ SumTo(probs, NumClasses - 1) > Scale - NumClasses
           /\ p.confidence_score * NumClasses > Scale - NumClasses

C10_Witness ==
    /\ Done("r1") /\ IsSuccess(resp["r1"])
    /\ resp["r1"].prediction.grade_index = 2
    /\ fileWeights["a"][2] = fileWeights["a"][4]
    /\ fileWeights["a"][0] < fileWeights["a"][2]
    /\ resp["r1"].prediction.confidence_score < Scale \div 2

====
